---- MODULE Spec2Model ----
(***************************************************************************)
(* Model of the pixx.io MCP server (src/pixxio_mcp.py).                    *)
(*                                                                         *)
(* Every tool is an async handler.  A handler runs without interruption    *)
(* up to its next `await` on the network, so each tool is modelled by one  *)
(* action per segment between awaits: <tool>(p) runs the handler from its  *)
(* entry to the first request, <tool>_resume(p) runs it from the arrival   *)
(* of the response to the return (or to the second request), and           *)
(* <tool>_fetched(p) runs the two-call tools from the second response to   *)
(* the return.  The DAM is the environment: each response is chosen from a *)
(* small set of outcomes (a JSON body, a non-2xx status, a timeout, a      *)
(* connection failure).                                                    *)
(*                                                                         *)
(* Python values: a dict is a function over its keys, None is <<>> and an  *)
(* Optional value v is <<v>>, a str built by an f-string or by json.dumps  *)
(* is the sequence of its pieces.                                          *)
(***************************************************************************)
EXTENDS Integers, Sequences, FiniteSets, TLC

(* ----------------------------- bounds ---------------------------------- *)
\* number of invocation slots (tool calls that can be in progress)
NumProcs == 2
\* number of temporary directories the model lets download_asset create
MaxTmp == 1
\* longest file list in a DAM search response
MaxFiles == 2
\* a sparse fetch payload lacks at most this many fields, or has at most this many
MaxAbsent == 2

Procs == 1..NumProcs

(* ------------------------- Python value helpers ------------------------ *)
None == <<>>
Some(x) == <<x>>

EmptyDict == [k \in {} |-> k]

\* d.get(k, default)
Get(d, k, default) == IF k \in DOMAIN d THEN d[k] ELSE default

\* d.get(k): the value wrapped, or None
GetOpt(d, k) == IF k \in DOMAIN d THEN Some(d[k]) ELSE None

\* d[k] = v
Put(d, k, v) == [x \in (DOMAIN d) \cup {k} |-> IF x = k THEN v ELSE d[x]]

\* truthiness of an Optional[str] and of an Optional[int]
TruthyStr(o) == o # None /\ o[1] # ""
TruthyInt(o) == o # None /\ o[1] # 0

Min(a, b) == IF a < b THEN a ELSE b

\* json.dumps of a list of integers
JsonDumpsInts(xs) == <<"[">> \o [i \in 1..Len(xs) |-> ToString(xs[i])] \o <<"]">>

\* json.dumps of a list of strings
JsonDumpsStrs(xs) == <<"[">> \o xs \o <<"]">>

\* json.dumps of one filter dict that is not a connector
JsonDumpsLeaf(f) ==
  CASE f.filterType = "searchTerm" ->
         <<"{", "filterType", "searchTerm", "term", f.term,
           "useSynonyms", "true", "}">>
    [] f.filterType = "fileType" ->
         <<"{", "filterType", "fileType", "fileType", f.fileType, "}">>
    [] f.filterType = "fileExtension" ->
         <<"{", "filterType", "fileExtension", "fileExtension", f.fileExtension, "}">>
    [] f.filterType = "directory" ->
         <<"{", "filterType", "directory", "directoryID", ToString(f.directoryID),
           "includeSubdirectories", "true", "}">>
    [] f.filterType = "collection" ->
         <<"{", "filterType", "collection", "collectionID", ToString(f.collectionID), "}">>

RECURSIVE JsonDumpsList(_)
JsonDumpsList(fs) ==
  IF fs = <<>> THEN <<>> ELSE JsonDumpsLeaf(Head(fs)) \o JsonDumpsList(Tail(fs))

\* json.dumps of a filter dict
JsonDumps(f) ==
  IF f.filterType = "connectorAnd"
  THEN <<"{", "filterType", "connectorAnd", "filters", "[">>
         \o JsonDumpsList(f.filters) \o <<"]", "}">>
  ELSE JsonDumpsLeaf(f)

(* ------------------------------- state --------------------------------- *)
VARIABLES
  PIXXIO_API_KEY,   \* process-wide configuration, read from the environment
  PIXXIO_BASE_URL,
  inv,              \* inv[p]: the tool invocation running in slot p
  fs,               \* the local file system: the set of files written
  tmpCount,         \* number of temporary directories created so far
  concurrent        \* whether the caller overlaps its invocations

vars == <<PIXXIO_API_KEY, PIXXIO_BASE_URL, inv, fs, tmpCount, concurrent>>

\* what no tool assigns
config == <<PIXXIO_API_KEY, PIXXIO_BASE_URL, concurrent>>

\* slot p can take a new invocation: the caller issues invocations one after
\* the other, or overlapping when it is a concurrent caller
CanStart(p) ==
  /\ inv[p].pc = "idle"
  /\ concurrent \/ \A q \in Procs : inv[q].pc = "idle"

Idle == [pc |-> "idle", tool |-> "", args |-> EmptyDict, calls |-> <<>>,
         outcomes |-> <<>>, locals |-> EmptyDict, result |-> EmptyDict]

\* an exception leaving the handler
Raise(exc, msg) == [status |-> "error", exc |-> exc, msg |-> msg]
\* a value returned by the handler
Return(v) == [status |-> "ok", value |-> v]

(* ---------------------------- HTTP helpers ----------------------------- *)
\* _get_client() without the check of the API key
_get_client_nokeycheck ==
  IF PIXXIO_BASE_URL = ""
  THEN [err |-> "ValueError", msg |-> "PIXXIO_BASE_URL is not configured"]
  ELSE [err |-> "", msg |-> "",
        base_url |-> PIXXIO_BASE_URL,
        headers |-> [Authorization |-> <<"Bearer ", PIXXIO_API_KEY>>],
        timeout |-> 30,
        follow_redirects |-> FALSE]

\* _get_client(): the configured client, or the ValueError it raises
_get_client ==
  IF PIXXIO_BASE_URL = ""
  THEN [err |-> "ValueError", msg |-> "PIXXIO_BASE_URL is not configured"]
  ELSE IF PIXXIO_API_KEY = ""
  THEN [err |-> "ValueError", msg |-> "PIXXIO_API_KEY is not configured"]
  ELSE [err |-> "", msg |-> "",
        base_url |-> PIXXIO_BASE_URL,
        headers |-> [Authorization |-> <<"Bearer ", PIXXIO_API_KEY>>],
        timeout |-> 30,
        follow_redirects |-> FALSE]

\* the request client.get / client.post / client.put sends
Request(client, method, path, params, data) ==
  [method |-> method, base_url |-> client.base_url, url |-> path,
   params |-> params, data |-> data, headers |-> client.headers,
   timeout |-> client.timeout, follow_redirects |-> client.follow_redirects]

\* outcomes of one remote call that make raise_for_status / the transport raise
Failures ==
  { [kind |-> "status", code |-> 401], [kind |-> "status", code |-> 404],
    [kind |-> "status", code |-> 500],
    [kind |-> "timeout", code |-> 0], [kind |-> "connect", code |-> 0] }

Failed(o) == o.kind # "ok"

\* the exception a failed remote call raises
ExcOf(o) ==
  CASE o.kind = "status"  -> Raise("HTTPStatusError", ToString(o.code))
    [] o.kind = "timeout" -> Raise("TimeoutException", "")
    [] o.kind = "connect" -> Raise("ConnectError", "")

\* _api_get / _api_post / _api_put up to the await: the handler's first remote
\* call, or the configuration error raised before it
ApiCall(p, tool, args, method, path, params, data) ==
  LET client == _get_client IN
  inv' = [inv EXCEPT ![p] =
    IF client.err # ""
    THEN [Idle EXCEPT !.pc = "done", !.tool = tool, !.args = args,
                      !.result = Raise(client.err, client.msg)]
    ELSE [Idle EXCEPT !.pc = "await1", !.tool = tool, !.args = args,
                      !.calls = <<Request(client, method, path, params, data)>>]]

\* the handler ends: with an exception, or with its return value
Finish(p, o, result) ==
  inv' = [inv EXCEPT ![p].pc = "done",
                     ![p].outcomes = Append(@, o),
                     ![p].result = result]

\* the resumption without raise_for_status(): a failure is swallowed
ApiResume_swallow(p, o, result) ==
  Finish(p, o, IF Failed(o) THEN Return(EmptyDict) ELSE result)

\* the handler resumes after its first remote call: resp.raise_for_status()
\* raises, or resp.json() is handed to the rest of the handler
ApiResume(p, o, result) ==
  Finish(p, o, IF Failed(o) THEN ExcOf(o) ELSE result)

(* ------------------------------- search -------------------------------- *)
SearchFields == "id,fileName,fileExtension,fileType,previewFileURL,description,keywords,subject,rating,uploadDate,fileSize,width,height"

\* the filters list with `is not None` in place of the truthiness of the ids
search_filters_notnone(a) ==
  (IF a.query # ""
   THEN <<[filterType |-> "searchTerm", term |-> a.query, useSynonyms |-> TRUE]>>
   ELSE <<>>)
  \o (IF TruthyStr(a.file_type)
      THEN <<[filterType |-> "fileType", fileType |-> a.file_type[1]]>>
      ELSE <<>>)
  \o (IF TruthyStr(a.file_extension)
      THEN <<[filterType |-> "fileExtension", fileExtension |-> a.file_extension[1]]>>
      ELSE <<>>)
  \o (IF a.directory_id # None
      THEN <<[filterType |-> "directory", directoryID |-> a.directory_id[1],
              includeSubdirectories |-> TRUE]>>
      ELSE <<>>)
  \o (IF a.collection_id # None
      THEN <<[filterType |-> "collection", collectionID |-> a.collection_id[1]]>>
      ELSE <<>>)

\* the filters list built from the search inputs
search_filters(a) ==
  (IF a.query # ""
   THEN <<[filterType |-> "searchTerm", term |-> a.query, useSynonyms |-> TRUE]>>
   ELSE <<>>)
  \o (IF TruthyStr(a.file_type)
      THEN <<[filterType |-> "fileType", fileType |-> a.file_type[1]]>>
      ELSE <<>>)
  \o (IF TruthyStr(a.file_extension)
      THEN <<[filterType |-> "fileExtension", fileExtension |-> a.file_extension[1]]>>
      ELSE <<>>)
  \o (IF TruthyInt(a.directory_id)
      THEN <<[filterType |-> "directory", directoryID |-> a.directory_id[1],
              includeSubdirectories |-> TRUE]>>
      ELSE <<>>)
  \o (IF TruthyInt(a.collection_id)
      THEN <<[filterType |-> "collection", collectionID |-> a.collection_id[1]]>>
      ELSE <<>>)

\* params["filter"] with every non-empty filters list under a connectorAnd
search_filter_param_wrapall(params, filters) ==
  IF Len(filters) >= 1
  THEN Put(params, "filter",
           JsonDumps([filterType |-> "connectorAnd", filters |-> filters]))
  ELSE params

\* params["filter"]: one filter unwrapped, several under a connectorAnd
search_filter_param(params, filters) ==
  IF Len(filters) = 1
  THEN Put(params, "filter", JsonDumps(filters[1]))
  ELSE IF Len(filters) > 1
  THEN Put(params, "filter",
           JsonDumps([filterType |-> "connectorAnd", filters |-> filters]))
  ELSE params

search_params(a) ==
  search_filter_param(
    [showFiles |-> "true", page |-> a.page, pageSize |-> Min(a.page_size, 100),
     sortBy |-> a.sort_by, sortDirection |-> a.sort_direction,
     responseFields |-> SearchFields],
    search_filters(a))

\* one entry of 'results'
search_record(f) ==
  [id |-> IF "id" \in DOMAIN f THEN ToString(f.id) ELSE "",
   title |-> Get(f, "fileName", ""),
   description |-> IF Get(f, "description", "") # ""
                   THEN f.description ELSE Get(f, "subject", ""),
   file_type |-> Get(f, "fileType", ""),
   file_extension |-> Get(f, "fileExtension", ""),
   keywords |-> Get(f, "keywords", <<>>),
   rating |-> GetOpt(f, "rating"),
   preview_url |-> Get(f, "previewFileURL", ""),
   upload_date |-> Get(f, "uploadDate", ""),
   file_size |-> GetOpt(f, "fileSize"),
   dimensions |-> IF "width" \in DOMAIN f /\ f.width # 0
                  THEN Some(<<ToString(f.width), "x",
                              IF "height" \in DOMAIN f THEN ToString(f.height) ELSE "?">>)
                  ELSE None]

\* search_result listing in ids only the files that carry an id
search_result_ids_present(a, data) ==
  LET files == Get(data, "files", <<>>)
      quantity == Get(data, "quantity", 0)
      all == [i \in 1..Len(files) |-> search_record(files[i]).id]
  IN [ids |-> SelectSeq(all, LAMBDA x : x # ""),
      results |-> [i \in 1..Len(files) |-> search_record(files[i])],
      total_results |-> quantity,
      page |-> a.page,
      page_size |-> a.page_size]

\* the dict search returns
search_result(a, data) ==
  LET files == Get(data, "files", <<>>)
      quantity == Get(data, "quantity", 0)
  IN [ids |-> [i \in 1..Len(files) |-> search_record(files[i]).id],
      results |-> [i \in 1..Len(files) |-> search_record(files[i])],
      total_results |-> quantity,
      page |-> a.page,
      page_size |-> a.page_size]

\* inputs of search
SearchArgs ==
  { a \in [query : {"", "logo"},
           page : {1, 2},
           page_size : {1, 20, 150},
           sort_by : {"uploadDate"},
           sort_direction : {"desc"},
           file_type : {None, Some("image")},
           file_extension : {None, Some("png")},
           directory_id : {None, Some(0), Some(7)},
           collection_id : {None, Some(0), Some(9)}] :
      \* every filter combination on the default page, every paging on one filter
      \/ a.page = 1 /\ a.page_size = 20
      \/ /\ a.query = "logo" /\ a.file_type = None /\ a.file_extension = None
         /\ a.directory_id = None /\ a.collection_id = None }

\* file records the DAM may return, any field possibly absent
RawFiles ==
  { [id |-> 11, fileName |-> "a.jpg", fileExtension |-> "jpg", fileType |-> "image",
     description |-> "", subject |-> "s", width |-> 640, height |-> 480],
    [id |-> 12, fileName |-> "b.pdf"],
    [fileName |-> "c", description |-> "d"] }

FileLists == UNION { [1..n -> RawFiles] : n \in 0..MaxFiles }

SearchBodies ==
  { [files |-> fl, quantity |-> q] : fl \in FileLists, q \in {0, 3} }
  \cup { [files |-> fl] : fl \in FileLists }
  \cup { [quantity |-> 3], EmptyDict }

search(p) ==
  /\ CanStart(p)
  /\ \E a \in SearchArgs :
       ApiCall(p, "search", a, "GET", <<"/api/v1/files">>, search_params(a), EmptyDict)
  /\ UNCHANGED <<config, fs, tmpCount>>

search_resume(p) ==
  /\ inv[p].pc = "await1"
  /\ inv[p].tool = "search"
  /\ \E o \in Failures \cup { [kind |-> "ok", code |-> 200, body |-> b] : b \in SearchBodies } :
       ApiResume(p, o, IF Failed(o) THEN EmptyDict
                       ELSE Return(search_result(inv[p].args, o.body)))
  /\ UNCHANGED <<config, fs, tmpCount>>

(* -------------------------------- fetch -------------------------------- *)
FetchFields == "id,fileName,fileExtension,fileType,previewFileURL,originalFileURL,description,keywords,subject,rating,uploadDate,createDate,modifyDate,fileSize,width,height,colorspace,orientation,directory,staticCollections,languageCodes,isArchived,isDownloadLocked,metadataFields,creator"

\* the dict fetch returns
fetch_result(a, data) ==
  LET f == Get(data, "file", data) IN
  [id |-> IF "id" \in DOMAIN f THEN ToString(f.id) ELSE a.id,
   title |-> Get(f, "fileName", ""),
   file_name |-> Get(f, "fileName", ""),
   file_extension |-> Get(f, "fileExtension", ""),
   file_type |-> Get(f, "fileType", ""),
   file_size |-> GetOpt(f, "fileSize"),
   description |-> Get(f, "description", ""),
   subject |-> Get(f, "subject", ""),
   creator |-> Get(f, "creator", ""),
   keywords |-> Get(f, "keywords", <<>>),
   rating |-> GetOpt(f, "rating"),
   colorspace |-> Get(f, "colorspace", ""),
   width |-> GetOpt(f, "width"),
   height |-> GetOpt(f, "height"),
   orientation |-> Get(f, "orientation", ""),
   preview_url |-> Get(f, "previewFileURL", ""),
   original_file_url |-> Get(f, "originalFileURL", ""),
   create_date |-> Get(f, "createDate", ""),
   modify_date |-> Get(f, "modifyDate", ""),
   upload_date |-> Get(f, "uploadDate", ""),
   directory |-> GetOpt(f, "directory"),
   collections |-> Get(f, "staticCollections", <<>>),
   language_codes |-> Get(f, "languageCodes", <<>>),
   is_archived |-> Get(f, "isArchived", FALSE),
   is_download_locked |-> Get(f, "isDownloadLocked", FALSE),
   metadata_fields |-> GetOpt(f, "metadataFields")]

FetchArgs == [id : {"11", "12"}]

\* bodies of GET /api/v1/files/{id}: the record, bare or under "file"
FetchBodies ==
  RawFiles \cup { [file |-> f] : f \in RawFiles } \cup { EmptyDict }

fetch(p) ==
  /\ CanStart(p)
  /\ \E a \in FetchArgs :
       ApiCall(p, "fetch", a, "GET", <<"/api/v1/files/", a.id>>,
               [responseFields |-> FetchFields], EmptyDict)
  /\ UNCHANGED <<config, fs, tmpCount>>

fetch_resume(p) ==
  /\ inv[p].pc = "await1"
  /\ inv[p].tool = "fetch"
  /\ \E o \in Failures \cup { [kind |-> "ok", code |-> 200, body |-> b] : b \in FetchBodies } :
       ApiResume(p, o, IF Failed(o) THEN EmptyDict
                       ELSE Return(fetch_result(inv[p].args, o.body)))
  /\ UNCHANGED <<config, fs, tmpCount>>

(* ------------------- get_download_url / download_asset ------------------ *)
\* the query parameters of the convert request, the same code in both tools
convert_params(a) ==
  LET p0 == [downloadType |-> a.download_type, responseType |-> "path",
             quality |-> a.quality]
      p1 == IF TruthyStr(a.file_extension) /\ a.download_type = "custom"
            THEN Put(p0, "fileExtension", a.file_extension[1]) ELSE p0
      p2 == IF TruthyInt(a.max_size) THEN Put(p1, "maxSize", a.max_size[1]) ELSE p1
      p3 == IF TruthyInt(a.width) THEN Put(p2, "width", a.width[1]) ELSE p2
      p4 == IF TruthyInt(a.height) THEN Put(p3, "height", a.height[1]) ELSE p3
  IN p4

\* inputs of get_download_url and of download_asset
ConvertArgs ==
  [id : {5},
   download_type : {"original", "preview", "custom", "downloadFormat"},
   file_extension : {None, Some("png")},
   max_size : {None, Some(512)},
   width : {None, Some(0), Some(800)},
   height : {None, Some(600)},
   quality : {90, 50}]

\* bodies of GET /api/v1/files/{id}/convert; names and URLs are the pieces
\* of the string
ConvertBodies ==
  { [downloadURL |-> <<"https://cdn.example/d/5">>, fileName |-> <<"a", ".", "png">>,
     fileExtension |-> "png", fileSize |-> 2],
    [downloadURL |-> <<"https://cdn.example/d/5">>, fileName |-> <<"a">>,
     fileExtension |-> "png"],
    [downloadURL |-> <<"https://cdn.example/d/5">>],
    [path |-> <<"https://cdn.example/p/5">>, fileName |-> <<"a">>],
    [downloadURL |-> <<>>],
    EmptyDict }

\* the dict get_download_url returns
get_download_url_result(a, data) ==
  [id |-> ToString(a.id),
   download_url |-> Get(data, "downloadURL", Get(data, "path", <<>>)),
   file_name |-> Get(data, "fileName", <<>>),
   file_extension |-> Get(data, "fileExtension",
                          IF TruthyStr(a.file_extension) THEN a.file_extension[1]
                          ELSE "original"),
   file_size |-> GetOpt(data, "fileSize"),
   download_type |-> a.download_type,
   note |-> "This URL is publicly accessible without authentication."]

get_download_url(p) ==
  /\ CanStart(p)
  /\ \E a \in ConvertArgs :
       ApiCall(p, "get_download_url", a, "GET",
               <<"/api/v1/files/", ToString(a.id), "/convert">>,
               convert_params(a), EmptyDict)
  /\ UNCHANGED <<config, fs, tmpCount>>

get_download_url_resume(p) ==
  /\ inv[p].pc = "await1"
  /\ inv[p].tool = "get_download_url"
  /\ \E o \in Failures \cup { [kind |-> "ok", code |-> 200, body |-> b] : b \in ConvertBodies } :
       ApiResume(p, o, IF Failed(o) THEN EmptyDict
                       ELSE Return(get_download_url_result(inv[p].args, o.body)))
  /\ UNCHANGED <<config, fs, tmpCount>>

\* inputs of download_asset
DownloadArgs == { a \in ConvertArgs : a.max_size = None /\ a.quality = 90 }

\* what the binary fetch of a converted file or of a preview may answer
BinaryContents == { <<>>, <<137, 80>> }

BinaryResponses ==
  { [kind |-> "ok", code |-> 200, headers |-> h, content |-> c] :
      h \in { EmptyDict, [ct \in {"content-type"} |-> <<"image/png", ";", " charset=binary">>] },
      c \in BinaryContents }

\* s in u, for a string u given by its pieces
HasPiece(u, s) == \E i \in 1..Len(u) : u[i] = s

LastIndex(u, s) == CHOOSE i \in 1..Len(u) : u[i] = s /\ \A j \in (i+1)..Len(u) : u[j] # s

\* os.path.join(a, b)
os_path_join(a, b) ==
  IF b # <<>> /\ b[1] = "/" THEN b ELSE a \o <<"/">> \o b

\* the name download_asset gives the file: f"{file_name}.{ext}"
download_file_name(id, data) ==
  LET file_name == Get(data, "fileName", <<"asset_", ToString(id)>>)
      ext == Get(data, "fileExtension", "jpg")
  IN file_name \o <<".", ext>>

\* the client of the binary fetch of download_asset
download_client ==
  [base_url |-> "", headers |-> EmptyDict, timeout |-> 30, follow_redirects |-> TRUE]

\* the dict download_asset returns
download_asset_result(a, locals, content) ==
  [id |-> ToString(a.id),
   file_path |-> locals.file_path,
   file_name |-> locals.file_name,
   file_size |-> Len(content),
   download_url |-> locals.download_url,
   note |-> "File downloaded to temporary location. Use file_path for further processing."]

download_asset(p) ==
  /\ CanStart(p)
  /\ tmpCount < MaxTmp
  /\ \E a \in DownloadArgs :
       ApiCall(p, "download_asset", a, "GET",
               <<"/api/v1/files/", ToString(a.id), "/convert">>,
               convert_params(a), EmptyDict)
  /\ UNCHANGED <<config, fs, tmpCount>>

\* the second remote call of a two-call tool: the handler awaits again
SecondCall(p, o, req, locals) ==
  inv' = [inv EXCEPT ![p].pc = "await2",
                     ![p].outcomes = Append(@, o),
                     ![p].calls = Append(@, req),
                     ![p].locals = locals]

\* download_asset_resume without the check of the download URL
download_asset_resume_nocheck(p) ==
  /\ inv[p].pc = "await1"
  /\ inv[p].tool = "download_asset"
  /\ \E o \in Failures \cup { [kind |-> "ok", code |-> 200, body |-> b] : b \in ConvertBodies } :
       IF Failed(o)
       THEN Finish(p, o, ExcOf(o))
       ELSE LET download_url == Get(o.body, "downloadURL", <<>>) IN
            SecondCall(p, o,
              Request(download_client, "GET", download_url, EmptyDict, EmptyDict),
              [download_url |-> download_url,
               file_name |-> download_file_name(inv[p].args.id, o.body)])
  /\ UNCHANGED <<config, fs, tmpCount>>

\* download_asset from the answer of the convert call, one of outcomes, to the
\* byte fetch or to the error
download_asset_resume_on(p, outcomes) ==
  /\ inv[p].pc = "await1"
  /\ inv[p].tool = "download_asset"
  /\ \E o \in outcomes :
       IF Failed(o)
       THEN Finish(p, o, ExcOf(o))
       ELSE LET download_url == Get(o.body, "downloadURL", <<>>) IN
            IF download_url = <<>>
            THEN Finish(p, o, Raise("ValueError", "Could not generate download URL"))
            ELSE SecondCall(p, o,
                   Request(download_client, "GET", download_url, EmptyDict, EmptyDict),
                   [download_url |-> download_url,
                    file_name |-> download_file_name(inv[p].args.id, o.body)])
  /\ UNCHANGED <<config, fs, tmpCount>>

\* download_asset_fetched_on with mkdtemp() ahead of raise_for_status(): the
\* directory is created whatever the byte fetch answers
download_asset_fetched_mkdtemp_first(p, outcomes) ==
  /\ inv[p].pc = "await2"
  /\ inv[p].tool = "download_asset"
  /\ \E o \in outcomes :
       LET tmp_dir == <<"/tmp/pixxio_", ToString(tmpCount + 1)>>
           file_path == os_path_join(tmp_dir, inv[p].locals.file_name)
           locals == Put(inv[p].locals, "file_path", file_path)
       IN /\ tmpCount' = tmpCount + 1
          /\ IF Failed(o)
             THEN /\ Finish(p, o, ExcOf(o))
                  /\ fs' = fs
             ELSE /\ fs' = { f \in fs : f.path # file_path }
                            \cup { [path |-> file_path, content |-> o.content] }
                  /\ Finish(p, o, Return(download_asset_result(inv[p].args, locals, o.content)))
  /\ UNCHANGED config

\* download_asset from the answer of the byte fetch, one of outcomes, to the
\* return
download_asset_fetched_on(p, outcomes) ==
  /\ inv[p].pc = "await2"
  /\ inv[p].tool = "download_asset"
  /\ \E o \in outcomes :
       IF Failed(o)
       THEN /\ Finish(p, o, ExcOf(o))
            /\ UNCHANGED <<fs, tmpCount>>
       ELSE LET tmp_dir == <<"/tmp/pixxio_", ToString(tmpCount + 1)>>
                file_path == os_path_join(tmp_dir, inv[p].locals.file_name)
                locals == Put(inv[p].locals, "file_path", file_path)
            IN /\ tmpCount' = tmpCount + 1
               /\ fs' = { f \in fs : f.path # file_path }
                          \cup { [path |-> file_path, content |-> o.content] }
               /\ Finish(p, o, Return(download_asset_result(inv[p].args, locals, o.content)))
  /\ UNCHANGED config

download_asset_resume(p) ==
  download_asset_resume_on(p,
    Failures \cup { [kind |-> "ok", code |-> 200, body |-> b] : b \in ConvertBodies })

download_asset_fetched(p) ==
  download_asset_fetched_on(p, Failures \cup BinaryResponses)

(* ----------------------------- get_preview ------------------------------ *)
\* the width parameter of the preview URL is replaced or appended
preview_url_width(preview_url, width) ==
  IF HasPiece(preview_url, "&width=")
  THEN SubSeq(preview_url, 1, LastIndex(preview_url, "&width=") - 1)
         \o <<"&width=", ToString(width)>>
  ELSE IF HasPiece(preview_url, "?")
  THEN preview_url \o <<"&width=", ToString(width)>>
  ELSE preview_url

\* the client of the binary fetch of get_preview without its headers argument
preview_client_noheaders ==
  [base_url |-> "", headers |-> EmptyDict, timeout |-> 15, follow_redirects |-> TRUE]

\* the client of the binary fetch of get_preview
preview_client ==
  [base_url |-> "", headers |-> [Authorization |-> <<"Bearer ", PIXXIO_API_KEY>>],
   timeout |-> 15, follow_redirects |-> TRUE]

\* the ImageContent get_preview returns
get_preview_result(resp) ==
  [type |-> "image",
   data |-> [base64 |-> resp.content],
   mimeType |-> Get(resp.headers, "content-type", <<"image/jpeg">>)[1]]

PreviewArgs == [id : {"11"}, width : {800, 400}]

PreviewURLs ==
  { <<"https://dam.example/p/11">>,
    <<"https://dam.example/p/11", "?", "s=1">>,
    <<"https://dam.example/p/11", "?", "s=1", "&width=", "200">> }

PreviewBodies ==
  { [file |-> [id |-> 11, previewFileURL |-> u]] : u \in PreviewURLs }
  \cup { [id |-> 11, previewFileURL |-> <<"https://dam.example/p/11">>],
         [file |-> [id |-> 11, previewFileURL |-> <<>>]],
         [file |-> [id |-> 11]],
         EmptyDict }

get_preview(p) ==
  /\ CanStart(p)
  /\ \E a \in PreviewArgs :
       ApiCall(p, "get_preview", a, "GET", <<"/api/v1/files/", a.id>>,
               [responseFields |-> "id,fileName,previewFileURL,width,height"], EmptyDict)
  /\ UNCHANGED <<config, fs, tmpCount>>

get_preview_resume(p) ==
  /\ inv[p].pc = "await1"
  /\ inv[p].tool = "get_preview"
  /\ \E o \in Failures \cup { [kind |-> "ok", code |-> 200, body |-> b] : b \in PreviewBodies } :
       IF Failed(o)
       THEN Finish(p, o, ExcOf(o))
       ELSE LET f == Get(o.body, "file", o.body)
                preview_url == Get(f, "previewFileURL", <<>>)
            IN IF preview_url = <<>>
               THEN Finish(p, o, Raise("ValueError", "No preview available"))
               ELSE LET url == preview_url_width(preview_url, inv[p].args.width) IN
                    SecondCall(p, o,
                      Request(preview_client, "GET", url, EmptyDict, EmptyDict),
                      [preview_url |-> url])
  /\ UNCHANGED <<config, fs, tmpCount>>

get_preview_fetched(p) ==
  /\ inv[p].pc = "await2"
  /\ inv[p].tool = "get_preview"
  /\ \E o \in Failures \cup BinaryResponses :
       Finish(p, o, IF Failed(o) THEN ExcOf(o) ELSE Return(get_preview_result(o)))
  /\ UNCHANGED <<config, fs, tmpCount>>

(* --------------------------- list_directories -------------------------- *)
\* The value under "directories" / "tree" is a list or some other JSON value;
\* it carries its Python type: [list |-> <<...>>] or [object |-> [...]].
\* isinstance(v, list)
IsList(v) == "list" \in DOMAIN v

\* _format_dir without the recursion: a child is formatted without its children
_format_dir_flat(d) ==
  LET entry(x) == [id |-> GetOpt(x, "id"),
                   name |-> Get(x, "name", ""),
                   path |-> Get(x, "path", ""),
                   has_children |-> Get(x, "hasChildren", FALSE),
                   file_count |-> Get(x, "quantity", 0)]
  IN IF "children" \in DOMAIN d /\ d.children # <<>>
     THEN Put(entry(d), "children",
              [i \in 1..Len(d.children) |-> entry(d.children[i])])
     ELSE entry(d)

RECURSIVE _format_dir(_)
_format_dir(d) ==
  LET result == [id |-> GetOpt(d, "id"),
                 name |-> Get(d, "name", ""),
                 path |-> Get(d, "path", ""),
                 has_children |-> Get(d, "hasChildren", FALSE),
                 file_count |-> Get(d, "quantity", 0)]
  IN IF "children" \in DOMAIN d /\ d.children # <<>>
     THEN Put(result, "children",
              [i \in 1..Len(d.children) |-> _format_dir(d.children[i])])
     ELSE result

\* the dict list_directories returns
list_directories_result(data) ==
  LET dirs == Get(data, "directories", Get(data, "tree", [list |-> <<>>])) IN
  [directories |-> IF IsList(dirs)
                   THEN [list |-> [i \in 1..Len(dirs.list) |-> _format_dir(dirs.list[i])]]
                   ELSE dirs]

list_directories_params(a) ==
  IF TruthyInt(a.parent_id) THEN [parentID |-> a.parent_id[1]] ELSE EmptyDict

DirectoryArgs == [parent_id : {None, Some(0), Some(3)}, show_tree : BOOLEAN]

DirA == [id |-> 2, name |-> "a", path |-> "/a", quantity |-> 4]
DirB == [id |-> 3, name |-> "b", children |-> <<>>]
DirC == [id |-> 4, hasChildren |-> TRUE, children |-> <<DirB, DirA>>]
DirRoot == [id |-> 1, name |-> "root", hasChildren |-> TRUE, children |-> <<DirA, DirC>>]

DirectoryLists == { <<>>, <<DirA>>, <<DirA, DirB>>, <<DirRoot, DirA>>, <<DirC>> }

DirectoryBodies ==
  { [directories |-> [list |-> l]] : l \in DirectoryLists }
  \cup { [tree |-> [list |-> l]] : l \in DirectoryLists }
  \cup { EmptyDict }

\* a tree response whose "tree" is one directory object, not a list
DirectoryTreeBody == [tree |-> [object |-> DirRoot]]

list_directories(p) ==
  /\ CanStart(p)
  /\ \E a \in DirectoryArgs :
       IF a.show_tree
       THEN ApiCall(p, "list_directories", a, "GET", <<"/api/v1/directories/tree">>,
                    EmptyDict, EmptyDict)
       ELSE ApiCall(p, "list_directories", a, "GET", <<"/api/v1/directories">>,
                    list_directories_params(a), EmptyDict)
  /\ UNCHANGED <<config, fs, tmpCount>>

list_directories_resume(p) ==
  /\ inv[p].pc = "await1"
  /\ inv[p].tool = "list_directories"
  /\ \/ \E o \in Failures \cup { [kind |-> "ok", code |-> 200, body |-> b] : b \in DirectoryBodies } :
          ApiResume(p, o, IF Failed(o) THEN EmptyDict
                          ELSE Return(list_directories_result(o.body)))
     \/ ApiResume(p, [kind |-> "ok", code |-> 200, body |-> DirectoryTreeBody],
                  Return(list_directories_result(DirectoryTreeBody)))
  /\ UNCHANGED <<config, fs, tmpCount>>

(* --------------------------- list_collections -------------------------- *)
\* the collection entry with a placeholder name in place of the empty default
list_collections_record_placeholder(c) ==
  [id |-> GetOpt(c, "id"),
   name |-> Get(c, "name", "Unnamed"),
   description |-> Get(c, "description", ""),
   is_dynamic |-> Get(c, "isDynamic", FALSE),
   file_count |-> Get(c, "filesQuantity", 0),
   create_date |-> Get(c, "createDate", "")]

list_collections_record(c) ==
  [id |-> GetOpt(c, "id"),
   name |-> Get(c, "name", ""),
   description |-> Get(c, "description", ""),
   is_dynamic |-> Get(c, "isDynamic", FALSE),
   file_count |-> Get(c, "filesQuantity", 0),
   create_date |-> Get(c, "createDate", "")]

\* the dict list_collections returns
list_collections_result(data) ==
  LET collections == Get(data, "collections", <<>>) IN
  [collections |-> [i \in 1..Len(collections) |-> list_collections_record(collections[i])],
   total |-> Get(data, "quantity", Len(collections))]

PageArgs == [page : {1, 2}, page_size : {50, 150}]

RawCollections ==
  { [id |-> 21, name |-> "press", description |-> "d", isDynamic |-> TRUE,
     filesQuantity |-> 3, createDate |-> "2024-01-01"],
    [id |-> 22] }

CollectionBodies ==
  { [collections |-> <<c>>, quantity |-> 5] : c \in RawCollections }
  \cup { [collections |-> <<c, d>>] : c, d \in RawCollections }
  \cup { EmptyDict }

list_collections(p) ==
  /\ CanStart(p)
  /\ \E a \in PageArgs :
       ApiCall(p, "list_collections", a, "GET", <<"/api/v1/collections">>,
               [page |-> a.page, pageSize |-> Min(a.page_size, 100)], EmptyDict)
  /\ UNCHANGED <<config, fs, tmpCount>>

list_collections_resume(p) ==
  /\ inv[p].pc = "await1"
  /\ inv[p].tool = "list_collections"
  /\ \E o \in Failures \cup { [kind |-> "ok", code |-> 200, body |-> b] : b \in CollectionBodies } :
       ApiResume(p, o, IF Failed(o) THEN EmptyDict
                       ELSE Return(list_collections_result(o.body)))
  /\ UNCHANGED <<config, fs, tmpCount>>

(* ----------------------------- get_keywords ---------------------------- *)
get_keywords_params(a) ==
  LET params == [page |-> a.page, pageSize |-> Min(a.page_size, 100)] IN
  IF TruthyStr(a.query) THEN Put(params, "filter", a.query[1]) ELSE params

get_keywords_result(data) ==
  [keywords |-> Get(data, "keywords", <<>>), total |-> Get(data, "quantity", 0)]

KeywordArgs == [query : {None, Some(""), Some("sun")}, page : {1}, page_size : {100, 150}]

KeywordBodies ==
  { [keywords |-> <<"sun", "sea">>, quantity |-> 2], [keywords |-> <<"sun">>], EmptyDict }

get_keywords(p) ==
  /\ CanStart(p)
  /\ \E a \in KeywordArgs :
       ApiCall(p, "get_keywords", a, "GET", <<"/api/v1/keywords">>,
               get_keywords_params(a), EmptyDict)
  /\ UNCHANGED <<config, fs, tmpCount>>

get_keywords_resume(p) ==
  /\ inv[p].pc = "await1"
  /\ inv[p].tool = "get_keywords"
  /\ \E o \in Failures \cup { [kind |-> "ok", code |-> 200, body |-> b] : b \in KeywordBodies } :
       ApiResume(p, o, IF Failed(o) THEN EmptyDict
                       ELSE Return(get_keywords_result(o.body)))
  /\ UNCHANGED <<config, fs, tmpCount>>

(* ----------------------------- update_asset ---------------------------- *)
update_asset_form(a) ==
  LET f0 == [ids |-> JsonDumpsInts(a.ids)]
      f1 == IF a.description # None THEN Put(f0, "description", a.description[1]) ELSE f0
      f2 == IF a.subject # None THEN Put(f1, "subject", a.subject[1]) ELSE f1
      f3 == IF a.rating # None THEN Put(f2, "rating", ToString(a.rating[1])) ELSE f2
      f4 == IF a.keywords_to_add # None /\ a.keywords_to_add[1] # <<>>
            THEN Put(f3, "keywordsToAdd", JsonDumpsStrs(a.keywords_to_add[1])) ELSE f3
      f5 == IF a.keywords_to_remove # None /\ a.keywords_to_remove[1] # <<>>
            THEN Put(f4, "keywordsToRemove", JsonDumpsStrs(a.keywords_to_remove[1])) ELSE f4
      f6 == IF TruthyInt(a.directory_id)
            THEN Put(f5, "directoryID", ToString(a.directory_id[1])) ELSE f5
  IN f6

update_asset_result(a, data) ==
  [success |-> Get(data, "success", FALSE),
   updated_ids |-> a.ids,
   message |-> <<"Successfully updated ", ToString(Len(a.ids)), " asset(s).">>]

UpdateArgs ==
  [ids : {<<11>>, <<11, 12>>},
   description : {None, Some("")},
   subject : {None},
   rating : {None, Some(0)},
   keywords_to_add : {None, Some(<<"sun">>)},
   keywords_to_remove : {None, Some(<<>>)},
   directory_id : {None, Some(0), Some(7)}]

SuccessBodies == { [success |-> TRUE, id |-> 31, url |-> "https://dam.example/s/31"],
                   [success |-> FALSE], EmptyDict }

update_asset(p) ==
  /\ CanStart(p)
  /\ \E a \in UpdateArgs :
       ApiCall(p, "update_asset", a, "PUT", <<"/api/v1/files">>,
               EmptyDict, update_asset_form(a))
  /\ UNCHANGED <<config, fs, tmpCount>>

update_asset_resume(p) ==
  /\ inv[p].pc = "await1"
  /\ inv[p].tool = "update_asset"
  /\ \E o \in Failures \cup { [kind |-> "ok", code |-> 200, body |-> b] : b \in SuccessBodies } :
       ApiResume(p, o, IF Failed(o) THEN EmptyDict
                       ELSE Return(update_asset_result(inv[p].args, o.body)))
  /\ UNCHANGED <<config, fs, tmpCount>>

(* ------------- get_metadata_fields / get_download_formats -------------- *)
get_metadata_fields_result(fields) ==
  [metadata_fields |-> Get(fields, "metadataFields", fields)]

get_download_formats_result(data) ==
  [download_formats |-> Get(data, "downloadFormats", <<>>)]

ListingBodies ==
  { [metadataFields |-> <<[id |-> 1, name |-> "Copyright"]>>],
    [downloadFormats |-> <<[id |-> 1, name |-> "Web JPG 1200px"]>>],
    EmptyDict }

get_metadata_fields(p) ==
  /\ CanStart(p)
  /\ ApiCall(p, "get_metadata_fields", EmptyDict, "GET", <<"/api/v1/metadataFields">>,
             EmptyDict, EmptyDict)
  /\ UNCHANGED <<config, fs, tmpCount>>

get_metadata_fields_resume(p) ==
  /\ inv[p].pc = "await1"
  /\ inv[p].tool = "get_metadata_fields"
  /\ \E o \in Failures \cup { [kind |-> "ok", code |-> 200, body |-> b] : b \in ListingBodies } :
       ApiResume(p, o, IF Failed(o) THEN EmptyDict
                       ELSE Return(get_metadata_fields_result(o.body)))
  /\ UNCHANGED <<config, fs, tmpCount>>

get_download_formats(p) ==
  /\ CanStart(p)
  /\ ApiCall(p, "get_download_formats", EmptyDict, "GET", <<"/api/v1/downloadFormats">>,
             EmptyDict, EmptyDict)
  /\ UNCHANGED <<config, fs, tmpCount>>

get_download_formats_resume(p) ==
  /\ inv[p].pc = "await1"
  /\ inv[p].tool = "get_download_formats"
  /\ \E o \in Failures \cup { [kind |-> "ok", code |-> 200, body |-> b] : b \in ListingBodies } :
       ApiResume(p, o, IF Failed(o) THEN EmptyDict
                       ELSE Return(get_download_formats_result(o.body)))
  /\ UNCHANGED <<config, fs, tmpCount>>

(* ------------- create_collection / create_external_share --------------- *)
create_collection_form(a) ==
  LET form_data == [name |-> a.name, description |-> a.description] IN
  IF a.file_ids # None /\ a.file_ids[1] # <<>>
  THEN Put(form_data, "fileIDs", JsonDumpsInts(a.file_ids[1])) ELSE form_data

create_collection_result(a, data) ==
  [success |-> Get(data, "success", FALSE),
   collection_id |-> GetOpt(data, "id"),
   name |-> a.name]

CollectionArgs ==
  [name : {"press"}, description : {"", "kit"}, file_ids : {None, Some(<<>>), Some(<<11>>)}]

create_collection(p) ==
  /\ CanStart(p)
  /\ \E a \in CollectionArgs :
       ApiCall(p, "create_collection", a, "POST", <<"/api/v1/collections">>,
               EmptyDict, create_collection_form(a))
  /\ UNCHANGED <<config, fs, tmpCount>>

create_collection_resume(p) ==
  /\ inv[p].pc = "await1"
  /\ inv[p].tool = "create_collection"
  /\ \E o \in Failures \cup { [kind |-> "ok", code |-> 200, body |-> b] : b \in SuccessBodies } :
       ApiResume(p, o, IF Failed(o) THEN EmptyDict
                       ELSE Return(create_collection_result(inv[p].args, o.body)))
  /\ UNCHANGED <<config, fs, tmpCount>>

\* json.dumps of the recipients list
JsonDumpsRecipients(rs) ==
  <<"[">> \o [i \in 1..Len(rs) |-> rs[i].email] \o <<"]">>

create_external_share_form(a) ==
  LET form_data == [name |-> a.name, fileIDs |-> JsonDumpsInts(a.file_ids),
                    allowDownload |-> IF a.allow_download THEN "true" ELSE "false"]
  IN IF a.recipients # None /\ a.recipients[1] # <<>>
     THEN Put(form_data, "recipients", JsonDumpsRecipients(a.recipients[1]))
     ELSE form_data

create_external_share_result(a, data) ==
  [success |-> Get(data, "success", FALSE),
   share_id |-> GetOpt(data, "id"),
   share_url |-> Get(data, "url", ""),
   name |-> a.name,
   file_count |-> Len(a.file_ids)]

ShareArgs ==
  [name : {"kit"}, file_ids : {<<11>>, <<11, 12>>}, allow_download : BOOLEAN,
   recipients : {None, Some(<<[email |-> "a@example.org", language |-> "en"]>>)}]

create_external_share(p) ==
  /\ CanStart(p)
  /\ \E a \in ShareArgs :
       ApiCall(p, "create_external_share", a, "POST", <<"/api/v1/externalShares">>,
               EmptyDict, create_external_share_form(a))
  /\ UNCHANGED <<config, fs, tmpCount>>

create_external_share_resume(p) ==
  /\ inv[p].pc = "await1"
  /\ inv[p].tool = "create_external_share"
  /\ \E o \in Failures \cup { [kind |-> "ok", code |-> 200, body |-> b] : b \in SuccessBodies } :
       ApiResume(p, o, IF Failed(o) THEN EmptyDict
                       ELSE Return(create_external_share_result(inv[p].args, o.body)))
  /\ UNCHANGED <<config, fs, tmpCount>>

(* --------------------------- specification ----------------------------- *)
\* the caller receives the result; the slot is free for the next invocation
Done(p) ==
  /\ inv[p].pc = "done"
  /\ inv' = [inv EXCEPT ![p] = Idle]
  /\ UNCHANGED <<config, fs, tmpCount>>

Init ==
  /\ PIXXIO_API_KEY \in {"", "key"}
  /\ PIXXIO_BASE_URL \in {"", "https://dam.example"}
  /\ inv = [p \in Procs |-> Idle]
  /\ fs = {}
  /\ tmpCount = 0
  /\ concurrent = FALSE

Next ==
  \E p \in Procs :
    \/ search(p)
    \/ search_resume(p)
    \/ fetch(p)
    \/ fetch_resume(p)
    \/ get_download_url(p)
    \/ get_download_url_resume(p)
    \/ get_preview(p)
    \/ get_preview_resume(p)
    \/ get_preview_fetched(p)
    \/ download_asset(p)
    \/ download_asset_resume(p)
    \/ download_asset_fetched(p)
    \/ list_directories(p)
    \/ list_directories_resume(p)
    \/ list_collections(p)
    \/ list_collections_resume(p)
    \/ get_keywords(p)
    \/ get_keywords_resume(p)
    \/ update_asset(p)
    \/ update_asset_resume(p)
    \/ get_metadata_fields(p)
    \/ get_metadata_fields_resume(p)
    \/ get_download_formats(p)
    \/ get_download_formats_resume(p)
    \/ create_collection(p)
    \/ create_collection_resume(p)
    \/ create_external_share(p)
    \/ create_external_share_resume(p)
    \/ Done(p)

Spec == Init /\ [][Next]_vars

(* ------------------- partially populated DAM payloads ------------------ *)
\* The same handlers, fed successful responses in which any subset of the
\* fields of the envelope and of the record is absent.

\* the record d with only the fields in S
Restrict(d, S) == [k \in S |-> d[k]]

RECURSIVE SmallSubsets(_, _)
\* the subsets of F with at most k elements
SmallSubsets(F, k) ==
  IF k = 0 THEN {{}}
  ELSE LET prev == SmallSubsets(F, k - 1) IN
       prev \cup { s \cup {x} : s \in prev, x \in F }

\* a file with every field search asks for
FullSearchFile ==
  [id |-> 11, fileName |-> "a.jpg", fileExtension |-> "jpg", fileType |-> "image",
   previewFileURL |-> "https://dam.example/p/11", description |-> "d",
   keywords |-> <<"sun">>, subject |-> "s", rating |-> 4,
   uploadDate |-> "2024-01-01", fileSize |-> 1024, width |-> 640, height |-> 480]

\* a file with every field fetch asks for
FullFetchFile ==
  [id |-> 11, fileName |-> "a.jpg", fileExtension |-> "jpg", fileType |-> "image",
   previewFileURL |-> "https://dam.example/p/11",
   originalFileURL |-> "https://dam.example/o/11", description |-> "d",
   keywords |-> <<"sun">>, subject |-> "s", rating |-> 4,
   uploadDate |-> "2024-01-01", createDate |-> "2023-12-31",
   modifyDate |-> "2024-01-02", fileSize |-> 1024, width |-> 640, height |-> 480,
   colorspace |-> "RGB", orientation |-> "landscape", directory |-> [id |-> 7],
   staticCollections |-> <<21>>, languageCodes |-> <<"en">>, isArchived |-> TRUE,
   isDownloadLocked |-> TRUE, metadataFields |-> [Copyright |-> "c"], creator |-> "me"]

FullDirectory ==
  [id |-> 1, name |-> "root", path |-> "/", hasChildren |-> TRUE, quantity |-> 4,
   children |-> <<DirB, DirA>>]

FullCollection ==
  [id |-> 21, name |-> "press", description |-> "d", isDynamic |-> TRUE,
   filesQuantity |-> 3, createDate |-> "2024-01-01"]

\* the field sets a sparse fetch payload may have
FetchFieldSets ==
  LET F == DOMAIN FullFetchFile IN
  SmallSubsets(F, MaxAbsent) \cup { F \ s : s \in SmallSubsets(F, MaxAbsent) }

SparseSearchArgs ==
  [query |-> "logo", page |-> 1, page_size |-> 20, sort_by |-> "uploadDate",
   sort_direction |-> "desc", file_type |-> None, file_extension |-> None,
   directory_id |-> None, collection_id |-> None]

\* a successful response with body b
Ok(b) == [kind |-> "ok", code |-> 200, body |-> b]

search_sparse(p) ==
  /\ CanStart(p)
  /\ ApiCall(p, "search", SparseSearchArgs, "GET", <<"/api/v1/files">>,
             search_params(SparseSearchArgs), EmptyDict)
  /\ UNCHANGED <<config, fs, tmpCount>>

search_sparse_resume(p) ==
  /\ inv[p].pc = "await1"
  /\ inv[p].tool = "search"
  /\ \E S \in SUBSET (DOMAIN FullSearchFile), E \in SUBSET {"files", "quantity"} :
       LET body == Restrict([files |-> <<Restrict(FullSearchFile, S)>>, quantity |-> 1], E)
       IN ApiResume(p, Ok(body), Return(search_result(inv[p].args, body)))
  /\ UNCHANGED <<config, fs, tmpCount>>

fetch_sparse(p) ==
  /\ CanStart(p)
  /\ ApiCall(p, "fetch", [id |-> "11"], "GET", <<"/api/v1/files/", "11">>,
             [responseFields |-> FetchFields], EmptyDict)
  /\ UNCHANGED <<config, fs, tmpCount>>

fetch_sparse_resume(p) ==
  /\ inv[p].pc = "await1"
  /\ inv[p].tool = "fetch"
  /\ \E S \in FetchFieldSets, wrapped \in BOOLEAN :
       LET f == Restrict(FullFetchFile, S)
           body == IF wrapped THEN [file |-> f] ELSE f
       IN ApiResume(p, Ok(body), Return(fetch_result(inv[p].args, body)))
  /\ UNCHANGED <<config, fs, tmpCount>>

list_directories_sparse(p) ==
  /\ CanStart(p)
  /\ \E show_tree \in BOOLEAN :
       ApiCall(p, "list_directories", [parent_id |-> None, show_tree |-> show_tree],
               "GET",
               IF show_tree THEN <<"/api/v1/directories/tree">>
               ELSE <<"/api/v1/directories">>,
               EmptyDict, EmptyDict)
  /\ UNCHANGED <<config, fs, tmpCount>>

list_directories_sparse_resume(p) ==
  /\ inv[p].pc = "await1"
  /\ inv[p].tool = "list_directories"
  /\ \E S \in SUBSET (DOMAIN FullDirectory), E \in {{}, {"directories"}, {"tree"}} :
       LET dirs == [list |-> <<Restrict(FullDirectory, S)>>]
           body == Restrict([directories |-> dirs, tree |-> dirs], E)
       IN ApiResume(p, Ok(body), Return(list_directories_result(body)))
  /\ UNCHANGED <<config, fs, tmpCount>>

list_collections_sparse(p) ==
  /\ CanStart(p)
  /\ ApiCall(p, "list_collections", [page |-> 1, page_size |-> 50], "GET",
             <<"/api/v1/collections">>, [page |-> 1, pageSize |-> 50], EmptyDict)
  /\ UNCHANGED <<config, fs, tmpCount>>

list_collections_sparse_resume(p) ==
  /\ inv[p].pc = "await1"
  /\ inv[p].tool = "list_collections"
  /\ \E S \in SUBSET (DOMAIN FullCollection), E \in SUBSET {"collections", "quantity"} :
       LET body == Restrict([collections |-> <<Restrict(FullCollection, S)>>,
                             quantity |-> 5], E)
       IN ApiResume(p, Ok(body), Return(list_collections_result(body)))
  /\ UNCHANGED <<config, fs, tmpCount>>

InitSparse ==
  /\ PIXXIO_API_KEY = "key"
  /\ PIXXIO_BASE_URL = "https://dam.example"
  /\ inv = [p \in Procs |-> Idle]
  /\ fs = {}
  /\ tmpCount = 0
  /\ concurrent = FALSE

NextSparse ==
  \E p \in Procs :
    \/ search_sparse(p)
    \/ search_sparse_resume(p)
    \/ fetch_sparse(p)
    \/ fetch_sparse_resume(p)
    \/ list_directories_sparse(p)
    \/ list_directories_sparse_resume(p)
    \/ list_collections_sparse(p)
    \/ list_collections_sparse_resume(p)
    \/ Done(p)

SpecSparse == InitSparse /\ [][NextSparse]_vars

(* ------------------------ overlapping invocations ----------------------- *)
\* A caller that does not wait for one invocation before it issues the next:
\* the handlers interleave at their awaits.

\* the one input the concurrent caller gives download_asset: the same asset
SameDownloadArgs ==
  [id |-> 5, download_type |-> "preview", file_extension |-> None, max_size |-> None,
   width |-> None, height |-> None, quality |-> 90]

SameKeywordArgs == [query |-> Some("sun"), page |-> 1, page_size |-> 100]

download_asset_same(p) ==
  /\ CanStart(p)
  /\ tmpCount < MaxTmp
  /\ ApiCall(p, "download_asset", SameDownloadArgs, "GET",
             <<"/api/v1/files/", ToString(SameDownloadArgs.id), "/convert">>,
             convert_params(SameDownloadArgs), EmptyDict)
  /\ UNCHANGED <<config, fs, tmpCount>>

get_keywords_same(p) ==
  /\ CanStart(p)
  /\ ApiCall(p, "get_keywords", SameKeywordArgs, "GET", <<"/api/v1/keywords">>,
             get_keywords_params(SameKeywordArgs), EmptyDict)
  /\ UNCHANGED <<config, fs, tmpCount>>

InitConcurrent ==
  /\ PIXXIO_API_KEY = "key"
  /\ PIXXIO_BASE_URL = "https://dam.example"
  /\ inv = [p \in Procs |-> Idle]
  /\ fs = {}
  /\ tmpCount = 0
  /\ concurrent = TRUE

\* what the DAM answers the concurrent caller: the convert call fails, or gives
\* no URL, or gives the URL and the name of the asset, a plain name or a name
\* that begins with the path separator (data.get("fileName") is used as it
\* comes); the byte fetch fails or delivers one of the contents
SameConvertOutcomes ==
  { [kind |-> "timeout", code |-> 0],
    Ok([downloadURL |-> <<>>]),
    Ok([downloadURL |-> <<"https://cdn.example/d/5">>, fileName |-> <<"a">>,
        fileExtension |-> "png"]),
    Ok([downloadURL |-> <<"https://cdn.example/d/5">>, fileName |-> <<"/", "srv", "/", "a">>,
        fileExtension |-> "png"]) }

SameFetchOutcomes ==
  { [kind |-> "status", code |-> 500] }
  \cup { [kind |-> "ok", code |-> 200, headers |-> EmptyDict, content |-> c] :
           c \in BinaryContents }

download_asset_same_resume(p) == download_asset_resume_on(p, SameConvertOutcomes)

download_asset_same_fetched(p) == download_asset_fetched_on(p, SameFetchOutcomes)

NextConcurrent ==
  \E p \in Procs :
    \/ download_asset_same(p)
    \/ download_asset_same_resume(p)
    \/ download_asset_same_fetched(p)
    \/ get_keywords_same(p)
    \/ get_keywords_resume(p)
    \/ Done(p)

SpecConcurrent == InitConcurrent /\ [][NextConcurrent]_vars

(* ------------------------------ properties ----------------------------- *)
\* the requests invocation p has issued, the outcomes it has received
Calls(p) == inv[p].calls
Outcomes(p) == inv[p].outcomes
Started(p) == inv[p].pc # "idle"
Returned(p) == inv[p].pc = "done" /\ inv[p].result.status = "ok"
Errored(p) == inv[p].pc = "done" /\ inv[p].result.status = "error"

\* number of places where piece s occurs in the string u
Occurs(u, s) == Cardinality({ i \in 1..Len(u) : u[i] = s })

\* the filters the search inputs call for, in the order searchTerm, fileType,
\* fileExtension, directory, collection
WantedFilters(a) ==
  LET slots ==
        << IF a.query # ""
           THEN <<[filterType |-> "searchTerm", term |-> a.query, useSynonyms |-> TRUE]>>
           ELSE <<>>,
           IF a.file_type \notin {None, Some("")}
           THEN <<[filterType |-> "fileType", fileType |-> a.file_type[1]]>>
           ELSE <<>>,
           IF a.file_extension \notin {None, Some("")}
           THEN <<[filterType |-> "fileExtension", fileExtension |-> a.file_extension[1]]>>
           ELSE <<>>,
           IF a.directory_id \notin {None, Some(0)}
           THEN <<[filterType |-> "directory", directoryID |-> a.directory_id[1],
                   includeSubdirectories |-> TRUE]>>
           ELSE <<>>,
           IF a.collection_id \notin {None, Some(0)}
           THEN <<[filterType |-> "collection", collectionID |-> a.collection_id[1]]>>
           ELSE <<>> >>
  IN slots[1] \o slots[2] \o slots[3] \o slots[4] \o slots[5]

\* C1: the filter of the outbound search request is absent when no input
\* produced a filter, the single produced filter unwrapped when there is one,
\* and otherwise a connectorAnd whose children are the produced filters in the
\* order searchTerm, fileType, fileExtension, directory, collection; a
\* connectorAnd never has fewer than 2 children.
C1_FilterShape ==
  \A p \in Procs :
    inv[p].tool = "search" /\ Calls(p) # <<>> =>
      LET params == Calls(p)[1].params
          want == WantedFilters(inv[p].args)
      IN /\ Len(want) = 0 => "filter" \notin DOMAIN params
         /\ Len(want) = 1 =>
              "filter" \in DOMAIN params /\ params.filter = JsonDumpsLeaf(want[1])
         /\ Len(want) > 1 =>
              /\ "filter" \in DOMAIN params
              /\ params.filter = <<"{", "filterType", "connectorAnd", "filters", "[">>
                                   \o JsonDumpsList(want) \o <<"]", "}">>
         /\ "filter" \in DOMAIN params /\ params.filter[3] = "connectorAnd" =>
              Occurs(params.filter, "{") - 1 >= 2

\* C1 witness: query "logo" with extension "png" was sent as a connectorAnd of
\* the two filters, query first
C1_Witness ==
  \E p \in Procs :
    /\ inv[p].tool = "search" /\ Calls(p) # <<>>
    /\ inv[p].args.query = "logo" /\ inv[p].args.file_extension = Some("png")
    /\ "filter" \in DOMAIN Calls(p)[1].params
    /\ Calls(p)[1].params.filter =
         <<"{", "filterType", "connectorAnd", "filters", "[",
           "{", "filterType", "searchTerm", "term", "logo", "useSynonyms", "true", "}",
           "{", "filterType", "fileExtension", "fileExtension", "png", "}",
           "]", "}">>

\* C2: a tool invoked while the base URL or the API key is empty fails with a
\* configuration error and has issued no request
C2_ConfigErrorBeforeNetwork ==
  \A p \in Procs :
    Started(p) /\ (PIXXIO_BASE_URL = "" \/ PIXXIO_API_KEY = "") =>
      /\ Calls(p) = <<>>
      /\ Errored(p)
      /\ inv[p].result.exc = "ValueError"
      /\ inv[p].result.msg \in {"PIXXIO_BASE_URL is not configured",
                                "PIXXIO_API_KEY is not configured"}

\* C2 witness: download_asset, a two-call tool, ended in the configuration
\* error with the API key missing
C2_Witness ==
  \E p \in Procs :
    /\ inv[p].tool = "download_asset" /\ Errored(p)
    /\ PIXXIO_API_KEY = "" /\ PIXXIO_BASE_URL # ""
    /\ inv[p].result.msg = "PIXXIO_API_KEY is not configured"
    /\ Calls(p) = <<>>

HasBearer(req) ==
  /\ "Authorization" \in DOMAIN req.headers
  /\ req.headers.Authorization = <<"Bearer ", PIXXIO_API_KEY>>

\* C3 as stated: every request of every tool carries Authorization: Bearer
\* <configured token>, the binary fetches of get_preview and download_asset
\* included
C3_Original ==
  \A p \in Procs : \A i \in 1..Len(Calls(p)) : HasBearer(Calls(p)[i])

\* C3 amended: every request carries Authorization: Bearer <configured token>,
\* except the binary fetch of download_asset, which is sent without any
\* Authorization header
C3_BearerExceptDownloadFetch ==
  \A p \in Procs : \A i \in 1..Len(Calls(p)) :
    IF inv[p].tool = "download_asset" /\ i = 2
    THEN "Authorization" \notin DOMAIN Calls(p)[i].headers
    ELSE HasBearer(Calls(p)[i])

\* C3 witness: get_preview has issued its binary fetch, with the bearer token
C3_Witness ==
  \E p \in Procs :
    /\ inv[p].tool = "get_preview" /\ Len(Calls(p)) = 2
    /\ Calls(p)[2].headers = [Authorization |-> <<"Bearer ", "key">>]

TwoCallTools == {"download_asset", "get_preview"}

\* C4: a tool other than download_asset and get_preview issues at most one
\* remote call; those two issue at most two, the second only after the first
\* returned successfully with a non-empty URL, to a target taken from the
\* first response
C4_CallCount ==
  \A p \in Procs :
    /\ inv[p].tool \notin TwoCallTools => Len(Calls(p)) <= 1
    /\ Len(Calls(p)) <= 2
    /\ Len(Calls(p)) = 2 =>
         /\ Len(Outcomes(p)) >= 1
         /\ Outcomes(p)[1].kind = "ok"
         /\ Calls(p)[2].url # <<>>
         /\ LET body == Outcomes(p)[1].body IN
            IF inv[p].tool = "download_asset"
            THEN "downloadURL" \in DOMAIN body /\ Calls(p)[2].url = body.downloadURL
            ELSE LET f == IF "file" \in DOMAIN body THEN body.file ELSE body IN
                 /\ "previewFileURL" \in DOMAIN f
                 /\ f.previewFileURL # <<>>
                 /\ Head(Calls(p)[2].url) = Head(f.previewFileURL)

\* C4 witness: download_asset waits for its byte fetch, issued to the URL the
\* convert call returned
C4_Witness ==
  \E p \in Procs :
    /\ inv[p].tool = "download_asset" /\ inv[p].pc = "await2"
    /\ Len(Calls(p)) = 2 /\ Len(Outcomes(p)) = 1
    /\ Calls(p)[2].url = <<"https://cdn.example/d/5">>

\* C5: no remote call is retried, and a failed remote call ends the
\* invocation with an error, never a success, with no further remote call
C5_NoRetry ==
  \A p \in Procs :
    /\ Len(Outcomes(p)) <= Len(Calls(p))
    /\ Len(Calls(p)) <= Len(Outcomes(p)) + 1
    /\ Len(Calls(p)) = 2 => Calls(p)[2] # Calls(p)[1]
    /\ \A i \in 1..Len(Outcomes(p)) :
         Failed(Outcomes(p)[i]) =>
           /\ Errored(p)
           /\ inv[p].result.exc \in {"HTTPStatusError", "TimeoutException", "ConnectError"}
           /\ Len(Calls(p)) = i
           /\ Len(Outcomes(p)) = i

\* C5 witness: the byte fetch of download_asset timed out and the invocation
\* ended with that error after two calls
C5_Witness ==
  \E p \in Procs :
    /\ inv[p].tool = "download_asset" /\ Errored(p)
    /\ Len(Calls(p)) = 2 /\ Len(Outcomes(p)) = 2
    /\ Outcomes(p)[2].kind = "timeout"
    /\ inv[p].result.exc = "TimeoutException"

\* C6 as stated: download_asset with download_type "downloadFormat" and no
\* download format id fails before any network call is issued
C6_Claim ==
  \A p \in Procs :
    /\ inv[p].tool = "download_asset" /\ Started(p)
    /\ inv[p].args.download_type = "downloadFormat"
    /\ "download_format_id" \notin DOMAIN inv[p].args
    => Calls(p) = <<>> /\ Errored(p)

CustomParams == {"width", "height", "quality", "fileExtension"}

\* C7 as stated: the convert request of get_download_url and download_asset
\* carries width, height, quality and fileExtension only when download_type
\* is "custom"
C7_Claim ==
  \A p \in Procs :
    /\ inv[p].tool \in {"get_download_url", "download_asset"}
    /\ Calls(p) # <<>>
    /\ inv[p].args.download_type # "custom"
    => CustomParams \cap DOMAIN Calls(p)[1].params = {}

\* the value that follows key k in the serialized filter u, for each place
\* where k occurs
ValuesOf(u, k) == { u[i + 1] : i \in { j \in 1..(Len(u) - 1) : u[j] = k } }

\* C8: in search a directory_id or collection_id that is zero or absent
\* produces no directory / collection filter and any other id exactly one
\* filter carrying that id; a zero or absent parent_id of list_directories
\* and directory_id of update_asset is omitted from the outbound request
C8_ZeroIdNotProvided ==
  \A p \in Procs :
    Calls(p) # <<>> =>
      LET a == inv[p].args
          req == Calls(p)[1]
          filter == IF "filter" \in DOMAIN req.params THEN req.params.filter ELSE <<>>
      IN /\ inv[p].tool = "search" =>
              /\ IF a.directory_id \in {None, Some(0)}
                 THEN Occurs(filter, "directoryID") = 0 /\ Occurs(filter, "directory") = 0
                 ELSE /\ Occurs(filter, "directoryID") = 1
                      /\ Occurs(filter, "directory") = 1
                      /\ ValuesOf(filter, "directoryID") = {ToString(a.directory_id[1])}
              /\ IF a.collection_id \in {None, Some(0)}
                 THEN Occurs(filter, "collectionID") = 0 /\ Occurs(filter, "collection") = 0
                 ELSE /\ Occurs(filter, "collectionID") = 1
                      /\ Occurs(filter, "collection") = 1
                      /\ ValuesOf(filter, "collectionID") = {ToString(a.collection_id[1])}
         /\ inv[p].tool = "list_directories" /\ a.parent_id \in {None, Some(0)} =>
              "parentID" \notin DOMAIN req.params
         /\ inv[p].tool = "update_asset" /\ a.directory_id \in {None, Some(0)} =>
              "directoryID" \notin DOMAIN req.data

\* C8 witness: search with directory_id 0 and collection_id 9 sent the
\* collection filter alone
C8_Witness ==
  \E p \in Procs :
    /\ inv[p].tool = "search" /\ Calls(p) # <<>>
    /\ inv[p].args.directory_id = Some(0) /\ inv[p].args.collection_id = Some(9)
    /\ inv[p].args.query = "" /\ inv[p].args.file_type = None
    /\ inv[p].args.file_extension = None
    /\ "filter" \in DOMAIN Calls(p)[1].params
    /\ Calls(p)[1].params.filter =
         <<"{", "filterType", "collection", "collectionID", "9", "}">>

\* the name has an extension: a dot inside it, followed by something
HasExtension(name) == \E i \in 2..(Len(name) - 1) : name[i] = "."

\* the last n pieces of u
Suffix(u, n) == SubSeq(u, Len(u) - n + 1, Len(u))

\* C9 as stated: download_asset stores and reports the file under the
\* caller-supplied name, else the name of the response, else asset_<id>, with
\* the extension appended only when that name has none
C9_Claim ==
  \A p \in Procs :
    inv[p].tool = "download_asset" /\ Returned(p) =>
      LET a == inv[p].args
          body == Outcomes(p)[1].body
          resolved == IF "file_name" \in DOMAIN a THEN a.file_name
                      ELSE IF "fileName" \in DOMAIN body THEN body.fileName
                      ELSE <<"asset_", ToString(a.id)>>
          ext == IF "fileExtension" \in DOMAIN body THEN body.fileExtension ELSE "jpg"
          name == IF HasExtension(resolved) THEN resolved ELSE resolved \o <<".", ext>>
          r == inv[p].result.value
      IN /\ r.file_name = name
         /\ Len(r.file_path) >= Len(name)
         /\ Suffix(r.file_path, Len(name)) = name
         /\ \E f \in fs : f.path = r.file_path

\* C10 as stated: the search result carries the total, the page and a
\* next-offset / next-page value exactly when total > offset + returned
C10_Claim ==
  \A p \in Procs :
    inv[p].tool = "search" /\ Returned(p) =>
      LET a == inv[p].args
          r == inv[p].result.value
          returned == Len(r.results)
          offset == (a.page - 1) * Min(a.page_size, 100)
          more == r.total_results > offset + returned
          hasNext == "next_offset" \in DOMAIN r \/ "next_page" \in DOMAIN r
      IN /\ {"total_results", "page"} \subseteq DOMAIN r
         /\ more <=> hasNext

SearchResultKeys == {"ids", "results", "total_results", "page", "page_size"}

SearchRecordKeys ==
  {"id", "title", "description", "file_type", "file_extension", "keywords", "rating",
   "preview_url", "upload_date", "file_size", "dimensions"}

FetchKeys ==
  {"id", "title", "file_name", "file_extension", "file_type", "file_size",
   "description", "subject", "creator", "keywords", "rating", "colorspace", "width",
   "height", "orientation", "preview_url", "original_file_url", "create_date",
   "modify_date", "upload_date", "directory", "collections", "language_codes",
   "is_archived", "is_download_locked", "metadata_fields"}

DirectoryKeys == {"id", "name", "path", "has_children", "file_count"}

CollectionKeys == {"id", "name", "description", "is_dynamic", "file_count", "create_date"}

\* every output key of pairs (<<output key, DAM field>>) whose DAM field is
\* absent from f has the value default in rec
DefaultsTo(rec, f, pairs, default) ==
  \A pr \in pairs : pr[2] \notin DOMAIN f => rec[pr[1]] = default

\* the invocation in slot p ended after a successful first response
Answered(p, tool) ==
  /\ inv[p].pc = "done" /\ inv[p].tool = tool
  /\ Outcomes(p) # <<>> /\ Outcomes(p)[1].kind = "ok"

SearchTotal(p) ==
  LET body == Outcomes(p)[1].body
      r == inv[p].result.value
      files == IF "files" \in DOMAIN body THEN body.files ELSE <<>>
  IN /\ DOMAIN r = SearchResultKeys
     /\ "quantity" \notin DOMAIN body => r.total_results = 0
     /\ Len(r.results) = Len(files) /\ Len(r.ids) = Len(files)
     /\ \A i \in 1..Len(files) :
          LET f == files[i]
              rec == r.results[i]
          IN /\ DOMAIN rec = SearchRecordKeys
             /\ DefaultsTo(rec, f, {<<"id", "id">>, <<"title", "fileName">>,
                                    <<"file_type", "fileType">>,
                                    <<"file_extension", "fileExtension">>,
                                    <<"preview_url", "previewFileURL">>,
                                    <<"upload_date", "uploadDate">>}, "")
             /\ DefaultsTo(rec, f, {<<"keywords", "keywords">>, <<"rating", "rating">>,
                                    <<"file_size", "fileSize">>,
                                    <<"dimensions", "width">>}, None)
             /\ {"description", "subject"} \cap DOMAIN f = {} => rec.description = ""

FetchTotal(p) ==
  LET body == Outcomes(p)[1].body
      f == IF "file" \in DOMAIN body THEN body.file ELSE body
      r == inv[p].result.value
  IN /\ DOMAIN r = FetchKeys
     /\ "id" \notin DOMAIN f => r.id = inv[p].args.id
     /\ DefaultsTo(r, f, {<<"title", "fileName">>, <<"file_name", "fileName">>,
                          <<"file_extension", "fileExtension">>,
                          <<"file_type", "fileType">>, <<"description", "description">>,
                          <<"subject", "subject">>, <<"creator", "creator">>,
                          <<"colorspace", "colorspace">>, <<"orientation", "orientation">>,
                          <<"preview_url", "previewFileURL">>,
                          <<"original_file_url", "originalFileURL">>,
                          <<"create_date", "createDate">>, <<"modify_date", "modifyDate">>,
                          <<"upload_date", "uploadDate">>}, "")
     /\ DefaultsTo(r, f, {<<"file_size", "fileSize">>, <<"rating", "rating">>,
                          <<"width", "width">>, <<"height", "height">>,
                          <<"directory", "directory">>,
                          <<"metadata_fields", "metadataFields">>,
                          <<"keywords", "keywords">>,
                          <<"collections", "staticCollections">>,
                          <<"language_codes", "languageCodes">>}, None)
     /\ DefaultsTo(r, f, {<<"is_archived", "isArchived">>,
                          <<"is_download_locked", "isDownloadLocked">>}, FALSE)

DirectoriesTotal(p) ==
  LET body == Outcomes(p)[1].body
      r == inv[p].result.value
      dirs == IF "directories" \in DOMAIN body THEN body.directories
              ELSE IF "tree" \in DOMAIN body THEN body.tree ELSE [list |-> <<>>]
  IN /\ DOMAIN r = {"directories"}
     /\ "list" \in DOMAIN dirs =>
          /\ "list" \in DOMAIN r.directories
          /\ Len(r.directories.list) = Len(dirs.list)
          /\ \A i \in 1..Len(dirs.list) :
               LET d == dirs.list[i]
                   rec == r.directories.list[i]
               IN /\ DirectoryKeys \subseteq DOMAIN rec
                  /\ DOMAIN rec \subseteq DirectoryKeys \cup {"children"}
                  /\ "children" \notin DOMAIN d => "children" \notin DOMAIN rec
                  /\ DefaultsTo(rec, d, {<<"id", "id">>}, None)
                  /\ DefaultsTo(rec, d, {<<"name", "name">>, <<"path", "path">>}, "")
                  /\ DefaultsTo(rec, d, {<<"has_children", "hasChildren">>}, FALSE)
                  /\ DefaultsTo(rec, d, {<<"file_count", "quantity">>}, 0)

CollectionsTotal(p) ==
  LET body == Outcomes(p)[1].body
      r == inv[p].result.value
      collections == IF "collections" \in DOMAIN body THEN body.collections ELSE <<>>
  IN /\ DOMAIN r = {"collections", "total"}
     /\ "quantity" \notin DOMAIN body => r.total = Len(collections)
     /\ Len(r.collections) = Len(collections)
     /\ \A i \in 1..Len(collections) :
          LET c == collections[i]
              rec == r.collections[i]
          IN /\ DOMAIN rec = CollectionKeys
             /\ DefaultsTo(rec, c, {<<"id", "id">>}, None)
             /\ DefaultsTo(rec, c, {<<"name", "name">>, <<"description", "description">>,
                                    <<"create_date", "createDate">>}, "")
             /\ DefaultsTo(rec, c, {<<"is_dynamic", "isDynamic">>}, FALSE)
             /\ DefaultsTo(rec, c, {<<"file_count", "filesQuantity">>}, 0)

\* C11: for a successful response in which any subset of the fields of the
\* envelope or of a record is absent, search, fetch, list_directories and
\* list_collections return (never raise) a result with the fixed key set, each
\* missing field replaced by its default; a directory entry has its five fixed
\* keys, and the children key only for a directory that has children
C11_NormalizationTotal ==
  \A p \in Procs :
    /\ Answered(p, "search") => Returned(p) /\ SearchTotal(p)
    /\ Answered(p, "fetch") => Returned(p) /\ FetchTotal(p)
    /\ Answered(p, "list_directories") => Returned(p) /\ DirectoriesTotal(p)
    /\ Answered(p, "list_collections") => Returned(p) /\ CollectionsTotal(p)

\* C11 witness: fetch answered by an empty object returned the full key set
\* with the requested id and the defaults
C11_Witness ==
  \E p \in Procs :
    /\ Answered(p, "fetch") /\ Returned(p)
    /\ DOMAIN Outcomes(p)[1].body = {}
    /\ DOMAIN inv[p].result.value = FetchKeys
    /\ inv[p].result.value.id = "11"
    /\ inv[p].result.value.title = ""
    /\ inv[p].result.value.is_archived = FALSE

RECURSIVE FormatsAs(_, _)
\* out is the entry of directory d: its own fields, and under children one
\* entry per child of d, in the order of d, each the entry of that child
FormatsAs(out, d) ==
  /\ out.id = (IF "id" \in DOMAIN d THEN <<d.id>> ELSE <<>>)
  /\ out.name = (IF "name" \in DOMAIN d THEN d.name ELSE "")
  /\ out.path = (IF "path" \in DOMAIN d THEN d.path ELSE "")
  /\ out.has_children = (IF "hasChildren" \in DOMAIN d THEN d.hasChildren ELSE FALSE)
  /\ out.file_count = (IF "quantity" \in DOMAIN d THEN d.quantity ELSE 0)
  /\ IF "children" \in DOMAIN d /\ Len(d.children) > 0
     THEN /\ "children" \in DOMAIN out
          /\ Len(out.children) = Len(d.children)
          /\ \A i \in 1..Len(d.children) : FormatsAs(out.children[i], d.children[i])
     ELSE "children" \notin DOMAIN out

\* C12: list_directories returns one entry per input directory in input
\* order; the children of a directory are formatted by the same rule one level
\* below it, in input order, to any depth; a directory without children gets
\* no children entry
C12_DirectoryFormatting ==
  \A p \in Procs :
    Answered(p, "list_directories") =>
      LET body == Outcomes(p)[1].body
          dirs == IF "directories" \in DOMAIN body THEN body.directories
                  ELSE IF "tree" \in DOMAIN body THEN body.tree ELSE [list |-> <<>>]
          out == inv[p].result.value.directories
      IN "list" \in DOMAIN dirs =>
           /\ "list" \in DOMAIN out
           /\ Len(out.list) = Len(dirs.list)
           /\ \A i \in 1..Len(dirs.list) : FormatsAs(out.list[i], dirs.list[i])

\* C12 witness: the tree <<root(a, c(b, a)), a>> came back with root first,
\* c as second child of root, b then a as children of c, and no children
\* entry for b and for a
C12_Witness ==
  \E p \in Procs :
    /\ Answered(p, "list_directories") /\ Returned(p)
    /\ Outcomes(p)[1].body = [tree |-> [list |-> <<DirRoot, DirA>>]]
    /\ LET out == inv[p].result.value.directories.list IN
       /\ Len(out) = 2
       /\ out[1].id = <<1>> /\ out[2].id = <<2>>
       /\ out[1].children[1].id = <<2>> /\ out[1].children[2].id = <<4>>
       /\ out[1].children[2].children[1].id = <<3>>
       /\ out[1].children[2].children[2].id = <<2>>
       /\ "children" \notin DOMAIN out[1].children[2].children[1]
       /\ "children" \notin DOMAIN out[2]

(* ------------------------------------------------------------------------ *)
\* what download_asset with inputs a returns when it runs alone against the
\* DAM answers outs and mkdtemp gives it the directory dir
AloneDownload(a, outs, dir) ==
  IF Failed(outs[1]) THEN ExcOf(outs[1])
  ELSE LET download_url == Get(outs[1].body, "downloadURL", <<>>) IN
       IF download_url = <<>>
       THEN Raise("ValueError", "Could not generate download URL")
       ELSE IF Failed(outs[2]) THEN ExcOf(outs[2])
       ELSE LET file_name == download_file_name(a.id, outs[1].body) IN
            Return(download_asset_result(a,
                     [download_url |-> download_url,
                      file_name |-> file_name,
                      file_path |-> os_path_join(dir, file_name)],
                     outs[2].content))

\* what get_keywords returns when it runs alone against the DAM answers outs
AloneKeywords(outs) ==
  IF Failed(outs[1]) THEN ExcOf(outs[1]) ELSE Return(get_keywords_result(outs[1].body))

\* the directories mkdtemp has created so far
TempDirs == { <<"/tmp/pixxio_", ToString(k)>> : k \in 1..tmpCount }

Downloaded(p) == inv[p].pc = "done" /\ inv[p].tool = "download_asset" /\ Returned(p)

\* the directory matters only to a download that returned; "/tmp" stands for
\* none created yet
ResultAsAlone ==
  \A p \in Procs :
    inv[p].pc = "done" =>
      /\ inv[p].tool = "download_asset" =>
            \E dir \in TempDirs \cup {<<"/tmp">>} :
              inv[p].result = AloneDownload(inv[p].args, Outcomes(p), dir)
      /\ inv[p].tool = "get_keywords" => inv[p].result = AloneKeywords(Outcomes(p))

DistinctPaths ==
  /\ \A p, q \in Procs :
        p # q /\ Downloaded(p) /\ Downloaded(q)
          => inv[p].result.value.file_path # inv[q].result.value.file_path
  /\ \A p \in Procs :
        Downloaded(p) =>
          [path |-> inv[p].result.value.file_path, content |-> Outcomes(p)[2].content] \in fs
  /\ \A f, g \in fs : f.path = g.path => f = g
  /\ Cardinality(fs) = tmpCount

ConfigKept ==
  /\ PIXXIO_API_KEY' = PIXXIO_API_KEY
  /\ PIXXIO_BASE_URL' = PIXXIO_BASE_URL

\* C13: under every interleaving of overlapping invocations, no step changes
\* the credentials or the base URL, every finished invocation has the result
\* it would have running alone against the DAM answers it received (its
\* download in a temporary directory of its own), and no two download_asset
\* invocations, the same asset included, write to the same local file path:
\* every file written is still there with the content of its invocation
C13_Claim ==
  /\ [](ResultAsAlone /\ DistinctPaths)
  /\ [][ConfigKept]_vars

(* ------------------------------------------------------------------------ *)
\* the file list of the DAM answer to the search of invocation p
FilesOf(p) ==
  LET body == Outcomes(p)[1].body
  IN IF "files" \in DOMAIN body THEN body.files ELSE <<>>

\* C14: in every successful search result, ids and results are as long as
\* the file list of the DAM, and at every position i ids[i] equals
\* results[i].id and both are the i-th file of the DAM: its id as a string
\* (the empty string when it has none) and its file name as the title, so
\* the order of the DAM is kept and no record is dropped or duplicated
C14_IdsAlignResults ==
  \A p \in Procs :
    (Answered(p, "search") /\ Returned(p)) =>
      LET files == FilesOf(p)
          r == inv[p].result.value
      IN /\ Len(r.ids) = Len(files)
         /\ Len(r.results) = Len(files)
         /\ \A i \in 1..Len(files) :
              /\ r.ids[i] = r.results[i].id
              /\ r.ids[i] = (IF "id" \in DOMAIN files[i] THEN ToString(files[i].id) ELSE "")
              /\ r.results[i].title =
                   (IF "fileName" \in DOMAIN files[i] THEN files[i].fileName ELSE "")

\* a search returned for the DAM files 12, one without id, in this order: ids
\* is "12", "" and the titles are b.pdf, c
C14_Witness ==
  \E p \in Procs :
    /\ Answered(p, "search") /\ Returned(p)
    /\ Len(FilesOf(p)) = 2
    /\ FilesOf(p)[1] = [id |-> 12, fileName |-> "b.pdf"]
    /\ "id" \notin DOMAIN FilesOf(p)[2]
    /\ inv[p].result.value.ids = <<"12", "">>
    /\ inv[p].result.value.results[1].title = "b.pdf"
    /\ inv[p].result.value.results[2].title = "c"

(* ------------------------------------------------------------------------ *)
\* invocation p ends in this step
Ends(p) == inv[p].pc # "done" /\ inv'[p].pc = "done"

\* the step in which download_asset has both answers and both are good
DownloadSucceeds(p) ==
  /\ inv[p].tool = "download_asset" /\ inv[p].pc = "await2"
  /\ Ends(p) /\ inv'[p].result.status = "ok"
  /\ Len(inv'[p].outcomes) = 2
  /\ ~Failed(inv'[p].outcomes[1]) /\ ~Failed(inv'[p].outcomes[2])
  /\ Get(inv'[p].outcomes[1].body, "downloadURL", <<>>) # <<>>

FilesystemKept == fs' = fs /\ tmpCount' = tmpCount

\* a download_asset that ended where the convert call failed, gave no
\* download URL, or the byte fetch failed
DownloadFailed(p) ==
  /\ inv[p].pc = "done" /\ inv[p].tool = "download_asset" /\ Outcomes(p) # <<>>
  /\ \/ Failed(Outcomes(p)[1])
     \/ Get(Outcomes(p)[1].body, "downloadURL", <<>>) = <<>>
     \/ Len(Outcomes(p)) = 2 /\ Failed(Outcomes(p)[2])

\* C15: download_asset creates its temporary directory and writes its file
\* only in the step where the convert call and the byte fetch have both
\* succeeded: every other step, the steps ending in error included, leaves
\* the local filesystem unchanged; an invocation whose convert call failed,
\* gave an empty download URL, or whose byte fetch failed has ended in error;
\* on success file_size is the number of bytes fetched and the file at
\* file_path holds these bytes
C15_WriteOnlyOnSuccess ==
  /\ [][(\A p \in Procs : ~DownloadSucceeds(p)) => FilesystemKept]_vars
  /\ [][\A p \in Procs :
           (Ends(p) /\ inv'[p].result.status = "error") => FilesystemKept]_vars
  /\ [](\A p \in Procs :
          /\ DownloadFailed(p) => Errored(p)
          /\ Downloaded(p) =>
               LET r == inv[p].result.value
                   content == Outcomes(p)[2].content
               IN /\ r.file_size = Len(content)
                  /\ [path |-> r.file_path, content |-> content] \in fs)

\* a download returned after two bytes were fetched: file_size is 2 and the
\* only file is the one at file_path, in the one directory created
C15_Witness ==
  \E p \in Procs :
    /\ Downloaded(p) /\ ~concurrent
    /\ Outcomes(p)[2].content = <<137, 80>>
    /\ inv[p].result.value.file_size = 2
    /\ fs = { [path |-> inv[p].result.value.file_path, content |-> <<137, 80>>] }
    /\ tmpCount = 1

====
